---- MODULE Spec2Model ----
(***************************************************************************)
(* State-machine model of Library/EfiEventLib/EfiEventLib.c: the typed     *)
(* wrappers around the boot services' event and timer calls, and the       *)
(* constructors composed from them.                                        *)
(*                                                                         *)
(* Every library function is an operator that threads an execution        *)
(* context (the platform's event table, the platform calls issued so far,  *)
(* the assertions tripped so far, the locals Status and Event) through     *)
(* its statements in source order.  One action per library function        *)
(* applies that operator to the current state.                             *)
(*                                                                         *)
(* ASSERT is the DebugLib macro.  What a tripped assertion does is decided *)
(* by the build: compiled out ("off"), reported with execution going on    *)
(* ("log"), or reported followed by a dead loop ("halt").  The build is    *)
(* chosen in Init and never changes.                                       *)
(***************************************************************************)
EXTENDS Integers, Sequences, FiniteSets, TLC

\* ---------------------------------------------------------------- bounds
\* The number of constructor calls (the calls that return a handle) in a run.
MaxCreates == 1
\* The number of library calls in a run.
MaxCalls == 3
\* Timer ticks an object is followed through.
MaxTicks == 3

\* ------------------------------------------------------------- constants
NULL == 0
\* What the uninitialised local Event may hold when the platform wrote nothing.
JunkHandle == 99

TPL_APPLICATION == 4
TPL_CALLBACK == 8
TPL_NOTIFY == 16

TimerCancel == 0
TimerPeriodic == 1
TimerRelative == 2

\* Event type flags; a Type is a set of flags (| is union, & is intersection).
EVT_TIMER == "EVT_TIMER"
EVT_NOTIFY_WAIT == "EVT_NOTIFY_WAIT"
EVT_NOTIFY_SIGNAL == "EVT_NOTIFY_SIGNAL"

EFI_SUCCESS == "EFI_SUCCESS"
EFI_INVALID_PARAMETER == "EFI_INVALID_PARAMETER"
EFI_OUT_OF_RESOURCES == "EFI_OUT_OF_RESOURCES"
EFI_NOT_READY == "EFI_NOT_READY"
EFI_UNSUPPORTED == "EFI_UNSUPPORTED"

EFI_ERROR(Status) == Status # EFI_SUCCESS

\* The well-known event groups, and the absent group (a NULL EventGroup).
NoGroup == "NULL"
gEfiEventExitBootServicesGuid == "gEfiEventExitBootServicesGuid"
gEfiEventVirtualAddressChangeGuid == "gEfiEventVirtualAddressChangeGuid"
gEfiEventMemoryMapChangeGuid == "gEfiEventMemoryMapChangeGuid"
gEfiEventReadyToBootGuid == "gEfiEventReadyToBootGuid"
gEfiEventDxeDispatchGuid == "gEfiEventDxeDispatchGuid"
gEfiEndOfDxeEventGroupGuid == "gEfiEndOfDxeEventGroupGuid"

\* ------------------------------------------------------------ the inputs
Builds == {"off", "log", "halt"}
Functions == {NULL, 1}
Contexts == {NULL, 1}
TriggerTimes == {0, 1}
Tpls == {TPL_APPLICATION, TPL_CALLBACK, TPL_NOTIFY}
Types == {{EVT_TIMER}, {EVT_NOTIFY_SIGNAL}, {EVT_NOTIFY_WAIT}}
Groups == {NoGroup, gEfiEventReadyToBootGuid}
TimerDelays == {TimerCancel, TimerPeriodic, TimerRelative}
\* The statuses the platform answers a create request, and any other request, with.
CreateStatuses == {EFI_SUCCESS, EFI_INVALID_PARAMETER, EFI_OUT_OF_RESOURCES}
Statuses == {EFI_SUCCESS, EFI_INVALID_PARAMETER}

VARIABLES
  assertBuild,  \* what a tripped ASSERT does in this build
  atRuntime,    \* the answer of EfiAtRuntime ()
  halted,       \* a tripped ASSERT has entered its dead loop
  events,       \* the platform's event objects; a handle is an index
  owned,        \* the non-null handles the library has returned to callers
  released,     \* the handles callers have passed to EfiCloseEvent / CancelEvent
  creates,      \* the number of constructor calls made so far
  ncalls,       \* the number of library calls made so far
  last          \* the latest library call: arguments, platform calls, result

vars == <<assertBuild, atRuntime, halted, events, owned, released, creates, ncalls, last>>

\* ------------------------------------------------------ platform objects
\* What the model keeps of a platform object: its type, whether it is still
\* allocated, whether a CloseEvent was ever issued on it, how its timer is
\* armed, and whether it is signaled.  The other creation arguments stay in
\* the record of the create call.  ticks counts the timer ticks the object has
\* lived through and notified the invocations of its notification function.
NewEvent(Type) ==
  [Type |-> Type, open |-> TRUE, closeIssued |-> FALSE, timer |-> TimerCancel,
   trigger |-> 0, signaled |-> FALSE, ticks |-> 0, notified |-> 0]

IsHandle(ev, Event) == Event \in 1..Len(ev)

WasClosed(ev, Event) == IsHandle(ev, Event) /\ ev[Event].closeIssued

\* A platform call as the library issued it, with the status it answered.
\* `reused` says a CloseEvent had already been issued on the handle; `trips`
\* are the assertions tripped before the call.
PlatformCall(cx, svc, Event, args, Status) ==
  [svc |-> svc, Event |-> Event, args |-> args, Status |-> Status,
   reused |-> WasClosed(cx.ev, Event), trips |-> cx.trips]

\* Whether the platform can answer a create request with EFI_SUCCESS: a
\* notified event comes with a notification function.
PlatformCanCreate(Type, NotifyFunction) ==
  ~((Type \cap {EVT_NOTIFY_SIGNAL, EVT_NOTIFY_WAIT}) # {} /\ NotifyFunction = NULL)

\* ---------------------------------------------------- execution context
\* ev: the platform's objects; calls: the platform calls issued by this
\* library call; trips: the source lines of the assertions tripped; dead: a
\* tripped assertion has stopped execution; Status, Event, Index: the locals.
Enter ==
  [ev |-> events, calls |-> <<>>, trips |-> <<>>, dead |-> FALSE,
   Status |-> EFI_SUCCESS, Event |-> NULL, Index |-> 0]

\* ASSERT (Expression) at source line `line`.
ASSERT(cx, Expression, line) ==
  IF cx.dead \/ assertBuild = "off" \/ Expression
    THEN cx
    ELSE [cx EXCEPT !.trips = Append(@, line), !.dead = (assertBuild = "halt")]

ASSERT_EFI_ERROR(cx, line) == ASSERT(cx, ~EFI_ERROR(cx.Status), line)

EfiAtRuntime == atRuntime

\* gBS->CreateEvent and gBS->CreateEventEx.  On success the platform writes
\* the handle of a new object; otherwise Event keeps whatever `out` it held.
gBS_CreateEventEx(cx, svc, Type, NotifyTpl, NotifyFunction, NotifyContext, EventGroup, ans) ==
  IF cx.dead THEN cx ELSE
  LET ok == ~EFI_ERROR(ans.create)
      h == IF ok THEN Len(cx.ev) + 1 ELSE ans.out
      args == [Type |-> Type, NotifyTpl |-> NotifyTpl, NotifyFunction |-> NotifyFunction,
               NotifyContext |-> NotifyContext, EventGroup |-> EventGroup]
  IN [cx EXCEPT
        !.calls = Append(@, PlatformCall(cx, svc, h, args, ans.create)),
        !.ev = IF ok
                 THEN Append(@, NewEvent(Type))
                 ELSE @,
        !.Status = ans.create,
        !.Event = h]

gBS_CreateEvent(cx, Type, NotifyTpl, NotifyFunction, NotifyContext, ans) ==
  gBS_CreateEventEx(cx, "CreateEvent", Type, NotifyTpl, NotifyFunction, NotifyContext, NoGroup, ans)

\* gBS->SetTimer.
gBS_SetTimer(cx, Event, Type, TriggerTime, ans) ==
  IF cx.dead THEN cx ELSE
  LET ok == ~EFI_ERROR(ans.timer) /\ IsHandle(cx.ev, Event) /\ cx.ev[Event].open
      args == [TimerType |-> Type, TriggerTime |-> TriggerTime]
  IN [cx EXCEPT
        !.calls = Append(@, PlatformCall(cx, "SetTimer", Event, args, ans.timer)),
        !.ev = IF ok
                 THEN [@ EXCEPT ![Event].timer = Type,
                                ![Event].trigger = IF Type = TimerCancel THEN 0 ELSE TriggerTime]
                 ELSE @,
        !.Status = ans.timer]

\* gBS->CloseEvent.
gBS_CloseEvent(cx, Event, ans) ==
  IF cx.dead THEN cx ELSE
  LET known == IsHandle(cx.ev, Event)
      ok == ~EFI_ERROR(ans.close) /\ known
  IN [cx EXCEPT
        !.calls = Append(@, PlatformCall(cx, "CloseEvent", Event, [x |-> 0], ans.close)),
        !.ev = IF known
                 THEN [@ EXCEPT ![Event].closeIssued = TRUE,
                                ![Event].open = IF ok THEN FALSE ELSE @,
                                ![Event].timer = IF ok THEN TimerCancel ELSE @,
                                ![Event].trigger = IF ok THEN 0 ELSE @,
                                ![Event].signaled = IF ok THEN FALSE ELSE @]
                 ELSE @,
        !.Status = ans.close]

\* gBS->SignalEvent.
gBS_SignalEvent(cx, Event, ans) ==
  IF cx.dead THEN cx ELSE
  LET ok == ~EFI_ERROR(ans.signal) /\ IsHandle(cx.ev, Event) /\ cx.ev[Event].open
  IN [cx EXCEPT
        !.calls = Append(@, PlatformCall(cx, "SignalEvent", Event, [x |-> 0], ans.signal)),
        !.ev = IF ok THEN [@ EXCEPT ![Event].signaled = TRUE] ELSE @,
        !.Status = ans.signal]

\* gBS->CheckEvent: the statuses the platform may answer for Event.
CheckAnswers(ev, Event) ==
  IF ~IsHandle(ev, Event) \/ ~ev[Event].open THEN {EFI_INVALID_PARAMETER}
  ELSE IF EVT_NOTIFY_SIGNAL \in ev[Event].Type THEN {EFI_INVALID_PARAMETER}
  ELSE IF ev[Event].signaled THEN {EFI_SUCCESS}
  ELSE {EFI_NOT_READY}

gBS_CheckEvent(cx, Event, ans) ==
  IF cx.dead THEN cx ELSE
  LET ok == ~EFI_ERROR(ans.check) /\ IsHandle(cx.ev, Event)
  IN [cx EXCEPT
        !.calls = Append(@, PlatformCall(cx, "CheckEvent", Event, [x |-> 0], ans.check)),
        !.ev = IF ok THEN [@ EXCEPT ![Event].signaled = FALSE] ELSE @,
        !.Status = ans.check]

\* gBS->WaitForEvent: the (Status, Index) pairs the platform may answer.  It
\* refuses a caller above TPL_APPLICATION; otherwise the first event in array
\* order that is signaled, or is of type EVT_NOTIFY_SIGNAL, ends the wait.
RECURSIVE FirstReady(_, _, _)
FirstReady(ev, Event, i) ==
  IF i > Len(Event) THEN 0
  ELSE IF CheckAnswers(ev, Event[i]) # {EFI_NOT_READY} THEN i
  ELSE FirstReady(ev, Event, i + 1)

WaitAnswers(ev, Event) ==
  LET i == FirstReady(ev, Event, 1)
  IN {[Status |-> EFI_UNSUPPORTED, Index |-> 0]}
       \cup (IF Len(Event) = 0 THEN {[Status |-> EFI_INVALID_PARAMETER, Index |-> 0]} ELSE {})
       \cup (IF i = 0 THEN {}
             ELSE {[Status |-> CHOOSE st \in CheckAnswers(ev, Event[i]) : TRUE, Index |-> i]})

gBS_WaitForEvent(cx, NumberOfEvents, Event, ans) ==
  IF cx.dead THEN cx ELSE
  LET i == ans.wait.Index
      ok == ~EFI_ERROR(ans.wait.Status) /\ i \in 1..Len(Event) /\ IsHandle(cx.ev, Event[i])
      args == [NumberOfEvents |-> NumberOfEvents, Event |-> Event]
  IN [cx EXCEPT
        !.calls = Append(@, PlatformCall(cx, "WaitForEvent", NULL, args, ans.wait.Status)),
        !.ev = IF ok THEN [@ EXCEPT ![Event[i]].signaled = FALSE] ELSE @,
        !.Status = ans.wait.Status,
        !.Index = i]

\* ------------------------------------------------------ primitive adapter
\* Mutant: the handle is not forced to NULL on failure.
ForceNull_Keep(Status, Event) == Event

\* if (EFI_ERROR (Status)) { Event = NULL; }
ForceNull(Status, Event) == IF EFI_ERROR(Status) THEN NULL ELSE Event

EfiCreateEvent(cx, Type, NotifyTpl, NotifyFunction, NotifyContext, ans) ==
  LET c1 == ASSERT(cx, ~EfiAtRuntime, 51)
      c2 == gBS_CreateEvent(c1, Type, NotifyTpl, NotifyFunction, NotifyContext, ans)
      c3 == ASSERT_EFI_ERROR(c2, 55)
      c4 == [c3 EXCEPT !.Event = ForceNull(c3.Status, @)]
  IN ASSERT(c4, c4.Event # NULL, 61)

\* ASSERT ((NotifyFunction != NULL) || ((Type & (EVT_NOTIFY_SIGNAL | EVT_NOTIFY_WAIT)) == 0))
CallbackSupplied(Type, NotifyFunction) ==
  NotifyFunction # NULL \/ (Type \cap {EVT_NOTIFY_SIGNAL, EVT_NOTIFY_WAIT}) = {}

EfiCreateEventEx(cx, Type, NotifyTpl, NotifyFunction, NotifyContext, EventGroup, ans) ==
  LET c0 == ASSERT(cx, CallbackSupplied(Type, NotifyFunction), 97)
      c1 == ASSERT(c0, ~EfiAtRuntime, 98)
      c2 == gBS_CreateEventEx(c1, "CreateEventEx", Type, NotifyTpl, NotifyFunction,
                              NotifyContext, EventGroup, ans)
      c3 == ASSERT_EFI_ERROR(c2, 102)
      c4 == [c3 EXCEPT !.Event = ForceNull(c3.Status, @)]
  IN ASSERT(c4, c4.Event # NULL, 108)

EfiSetTimer(cx, Event, Type, TriggerTime, ans) ==
  LET c1 == ASSERT(cx, Event # NULL, 137)
      c2 == ASSERT(c1, Type >= TimerCancel /\ Type <= TimerRelative, 138)
      c3 == ASSERT(c2, ~EfiAtRuntime, 139)
      c4 == gBS_SetTimer(c3, Event, Type, TriggerTime, ans)
  IN ASSERT_EFI_ERROR(c4, 143)

\* Mutant: the signal adapter reports success whatever the platform answered.
EfiSignalEvent_ReportsSuccess(cx, Event, ans) ==
  LET c1 == ASSERT(cx, Event # NULL, 162)
      c2 == ASSERT(c1, ~EfiAtRuntime, 163)
      c3 == gBS_SignalEvent(c2, Event, ans)
  IN [ASSERT_EFI_ERROR(c3, 167) EXCEPT !.Status = EFI_SUCCESS]

EfiSignalEvent(cx, Event, ans) ==
  LET c1 == ASSERT(cx, Event # NULL, 162)
      c2 == ASSERT(c1, ~EfiAtRuntime, 163)
      c3 == gBS_SignalEvent(c2, Event, ans)
  IN ASSERT_EFI_ERROR(c3, 167)

\* Mutant: the wait adapter reports success whatever the platform answered.
EfiWaitForEvent_HidesStatus(cx, NumberOfEvents, Event, ans) ==
  LET c1 == ASSERT(cx, NumberOfEvents > 0, 194)
      c2 == ASSERT(c1, ~EfiAtRuntime, 197)
      c3 == gBS_WaitForEvent(c2, NumberOfEvents, Event, ans)
  IN [c3 EXCEPT !.Status = EFI_SUCCESS]

\* The callers of the model pass an array and an Index pointer, so the
\* assertions of lines 195 and 196 (Event != NULL, Index != NULL) never trip.
EfiWaitForEvent(cx, NumberOfEvents, Event, ans) ==
  LET c1 == ASSERT(cx, NumberOfEvents > 0, 194)
      c2 == ASSERT(c1, ~EfiAtRuntime, 197)
      c3 == gBS_WaitForEvent(c2, NumberOfEvents, Event, ans)
  IN ASSERT_EFI_ERROR(c3, 201)

\* Mutant: the close adapter does not consult EfiAtRuntime().
EfiCloseEvent_NoRuntimeCheck(cx, Event, ans) ==
  LET c1 == ASSERT(cx, Event # NULL, 220)
      c3 == gBS_CloseEvent(c1, Event, ans)
  IN ASSERT_EFI_ERROR(c3, 225)

EfiCloseEvent(cx, Event, ans) ==
  LET c1 == ASSERT(cx, Event # NULL, 220)
      c2 == ASSERT(c1, ~EfiAtRuntime, 221)
      c3 == gBS_CloseEvent(c2, Event, ans)
  IN ASSERT_EFI_ERROR(c3, 225)

\* Mutant: EFI_NOT_READY is escalated like every other non-success status.
EfiCheckEvent_AssertsNotReady(cx, Event, ans) ==
  LET c1 == ASSERT(cx, Event # NULL, 246)
      c2 == ASSERT(c1, ~EfiAtRuntime, 247)
      c3 == gBS_CheckEvent(c2, Event, ans)
  IN ASSERT_EFI_ERROR(c3, 252)

EfiCheckEvent(cx, Event, ans) ==
  LET c1 == ASSERT(cx, Event # NULL, 246)
      c2 == ASSERT(c1, ~EfiAtRuntime, 247)
      c3 == gBS_CheckEvent(c2, Event, ans)
  IN IF c3.Status # EFI_NOT_READY THEN ASSERT_EFI_ERROR(c3, 252) ELSE c3

\* -------------------------------------------------- lifecycle composition
\* Mutant: the priority test lets TPL_CALLBACK itself through.
TimerTplAllowed_Inclusive(NotifyTpl) == NotifyTpl <= TPL_CALLBACK

\* if (NotifyTpl < TPL_CALLBACK)
TimerTplAllowed(NotifyTpl) == NotifyTpl < TPL_CALLBACK

\* Mutant: the callback is not bound to the timer's signal.
TimerEventType_NoNotify(NotifyFunction) == {EVT_TIMER}

\* (NotifyFunction != NULL) ? (EVT_TIMER | EVT_NOTIFY_SIGNAL) : EVT_TIMER
TimerEventType(NotifyFunction) ==
  IF NotifyFunction # NULL THEN {EVT_TIMER, EVT_NOTIFY_SIGNAL} ELSE {EVT_TIMER}

\* Mutant: the two timer modes are swapped.
TimerDelayOf_Swapped(SignalPeriodic) == IF SignalPeriodic THEN TimerRelative ELSE TimerPeriodic

\* SignalPeriodic ? TimerPeriodic : TimerRelative
TimerDelayOf(SignalPeriodic) == IF SignalPeriodic THEN TimerPeriodic ELSE TimerRelative

\* Mutant: the unarmed event is dropped without being closed.
CloseUnarmed_NoClose(cx, ans) ==
  IF EFI_ERROR(cx.Status) THEN [cx EXCEPT !.Event = NULL] ELSE cx

\* Mutant: the unarmed event is closed but its handle is still returned.
CloseUnarmed_KeepHandle(cx, ans) ==
  IF EFI_ERROR(cx.Status) THEN EfiCloseEvent(cx, cx.Event, ans) ELSE cx

\* if (EFI_ERROR (Status)) { EfiCloseEvent (Event); Event = NULL; }
CloseUnarmed(cx, ans) ==
  IF EFI_ERROR(cx.Status)
    THEN [EfiCloseEvent(cx, cx.Event, ans) EXCEPT !.Event = NULL]
    ELSE cx

\* Mutant: the timer is armed without testing that the create gave a handle.
CreateTimerEvent_ArmsUnchecked(cx, NotifyFunction, NotifyContext, TriggerTime, SignalPeriodic, NotifyTpl, ans) ==
  LET c0 == [cx EXCEPT !.Event = NULL]
      c1 == EfiCreateEvent(c0, TimerEventType(NotifyFunction), NotifyTpl,
                           NotifyFunction, NotifyContext, ans)
      c2 == EfiSetTimer(c1, c1.Event, TimerDelayOf(SignalPeriodic), TriggerTime, ans)
      c3 == IF ~TimerTplAllowed(NotifyTpl) THEN c0
            ELSE IF c1.dead THEN c1
            ELSE IF c2.dead THEN c2
            ELSE CloseUnarmed(c2, ans)
  IN ASSERT(c3, c3.Event # NULL, 293)

\* Mutant: an event that could not be armed is forgotten without being closed.
CreateTimerEvent_DropsUnarmed(cx, NotifyFunction, NotifyContext, TriggerTime, SignalPeriodic, NotifyTpl, ans) ==
  LET c0 == [cx EXCEPT !.Event = NULL]
      c1 == EfiCreateEvent(c0, TimerEventType(NotifyFunction), NotifyTpl,
                           NotifyFunction, NotifyContext, ans)
      c2 == EfiSetTimer(c1, c1.Event, TimerDelayOf(SignalPeriodic), TriggerTime, ans)
      c3 == IF ~TimerTplAllowed(NotifyTpl) THEN c0
            ELSE IF c1.dead \/ c1.Event = NULL THEN c1
            ELSE IF c2.dead THEN c2
            ELSE [c2 EXCEPT !.Event = IF EFI_ERROR(c2.Status) THEN NULL ELSE @]
  IN ASSERT(c3, c3.Event # NULL, 293)

\* Mutant: the result is returned without the final assertion on the handle.
CreateTimerEvent_NoFinalAssert(cx, NotifyFunction, NotifyContext, TriggerTime, SignalPeriodic, NotifyTpl, ans) ==
  LET c0 == [cx EXCEPT !.Event = NULL]
      c1 == EfiCreateEvent(c0, TimerEventType(NotifyFunction), NotifyTpl,
                           NotifyFunction, NotifyContext, ans)
      c2 == EfiSetTimer(c1, c1.Event, TimerDelayOf(SignalPeriodic), TriggerTime, ans)
  IN IF ~TimerTplAllowed(NotifyTpl) THEN c0
     ELSE IF c1.dead \/ c1.Event = NULL THEN c1
     ELSE IF c2.dead THEN c2
     ELSE CloseUnarmed(c2, ans)

CreateTimerEvent(cx, NotifyFunction, NotifyContext, TriggerTime, SignalPeriodic, NotifyTpl, ans) ==
  LET c0 == [cx EXCEPT !.Event = NULL]
      c1 == EfiCreateEvent(c0, TimerEventType(NotifyFunction), NotifyTpl,
                           NotifyFunction, NotifyContext, ans)
      c2 == EfiSetTimer(c1, c1.Event, TimerDelayOf(SignalPeriodic), TriggerTime, ans)
      c3 == IF ~TimerTplAllowed(NotifyTpl) THEN c0
            ELSE IF c1.dead \/ c1.Event = NULL THEN c1
            ELSE IF c2.dead THEN c2
            ELSE CloseUnarmed(c2, ans)
  IN ASSERT(c3, c3.Event # NULL, 293)

CreateNotifyEvent(cx, NotifyFunction, NotifyContext, TriggerTime, SignalPeriodic, ans) ==
  CreateTimerEvent(cx, NotifyFunction, NotifyContext, TriggerTime, SignalPeriodic, TPL_NOTIFY, ans)

\* Mutant: a cancelled timer is also closed.
CancelTimer_ThenClose(cx, Event, ans) ==
  EfiCloseEvent(EfiSetTimer(cx, Event, TimerCancel, 0, ans), Event, ans)

CancelTimer(cx, Event, ans) == EfiSetTimer(cx, Event, TimerCancel, 0, ans)

\* Mutant: the event is closed whether or not the cancel succeeded.
CancelEvent_CloseAlways(cx, Event, ans) ==
  EfiCloseEvent(CancelTimer(cx, Event, ans), Event, ans)

CancelEvent(cx, Event, ans) ==
  LET c1 == CancelTimer(cx, Event, ans)
  IN IF ~c1.dead /\ ~EFI_ERROR(c1.Status) THEN EfiCloseEvent(c1, Event, ans) ELSE c1

CreateSignalEvent(cx, NotifyFunction, NotifyContext, EventGroup, ans) ==
  EfiCreateEventEx(cx, {EVT_NOTIFY_SIGNAL}, TPL_NOTIFY, NotifyFunction, NotifyContext,
                   EventGroup, ans)

CreateExitBootServicesEvent(cx, NotifyFunction, NotifyContext, ans) ==
  CreateSignalEvent(cx, NotifyFunction, NotifyContext, gEfiEventExitBootServicesGuid, ans)

CreateVirtualAddressChangeEvent(cx, NotifyFunction, NotifyContext, ans) ==
  CreateSignalEvent(cx, NotifyFunction, NotifyContext, gEfiEventVirtualAddressChangeGuid, ans)

CreateMemoryMapChangeEvent(cx, NotifyFunction, NotifyContext, ans) ==
  CreateSignalEvent(cx, NotifyFunction, NotifyContext, gEfiEventMemoryMapChangeGuid, ans)

CreateReadyToBootEvent(cx, NotifyFunction, NotifyContext, ans) ==
  CreateSignalEvent(cx, NotifyFunction, NotifyContext, gEfiEventReadyToBootGuid, ans)

CreateDxeDispatchGuidEvent(cx, NotifyFunction, NotifyContext, ans) ==
  CreateSignalEvent(cx, NotifyFunction, NotifyContext, gEfiEventDxeDispatchGuid, ans)

\* Mutant: the end-of-DXE constructor subscribes to the dispatch group.
CreateEndOfDxeEvent_WrongGroup(cx, NotifyFunction, NotifyContext, ans) ==
  CreateSignalEvent(cx, NotifyFunction, NotifyContext, gEfiEventDxeDispatchGuid, ans)

CreateEndOfDxeEvent(cx, NotifyFunction, NotifyContext, ans) ==
  CreateSignalEvent(cx, NotifyFunction, NotifyContext, gEfiEndOfDxeEventGroupGuid, ans)

\* ------------------------------------------------------------- the calls
\* What the platform answers to the calls one library call may issue: a
\* status per service, and `out`, what the Event out-parameter holds after a
\* create request that failed.
Quiet ==
  [create |-> EFI_SUCCESS, out |-> NULL, timer |-> EFI_SUCCESS, close |-> EFI_SUCCESS,
   signal |-> EFI_SUCCESS, check |-> EFI_SUCCESS,
   wait |-> [Status |-> EFI_SUCCESS, Index |-> 0]]

\* The answers the platform can give to a create request.  `out` matters only
\* when the request fails.
CreateAnswers(Type, NotifyFunction) ==
  {a \in {[Quiet EXCEPT !.create = st, !.out = out] :
            st \in CreateStatuses, out \in {NULL, JunkHandle}} :
     /\ ~EFI_ERROR(a.create) => a.out = NULL
     /\ PlatformCanCreate(Type, NotifyFunction) <=> a.create # EFI_INVALID_PARAMETER}

\* The answers to the calls CreateTimerEvent may issue.  An answer to a call
\* that cannot follow is left at its default.
TimerAnswers(NotifyFunction) ==
  {a \in {[c EXCEPT !.timer = timer, !.close = close] :
            c \in CreateAnswers(TimerEventType(NotifyFunction), NotifyFunction),
            timer \in Statuses, close \in Statuses} :
     /\ EFI_ERROR(a.create) => ~EFI_ERROR(a.timer)
     /\ ~EFI_ERROR(a.timer) => ~EFI_ERROR(a.close)}

\* The platform would create and arm the event, were it asked to.
Willing(ans) == ~EFI_ERROR(ans.create) /\ ~EFI_ERROR(ans.timer)

\* The handles a caller holds and can pass on.
Held == {h \in owned : IsHandle(events, h)}

\* A library call returns (or, once an assertion has halted, never does).
\* kind: "handle" for the constructors, "status" for the rest, "void".
Return(op, kind, args, cx, willing, stale) ==
  LET returned == ~cx.dead
      handle == IF kind = "handle" /\ returned THEN cx.Event ELSE NULL
  IN /\ events' = cx.ev
     /\ halted' = cx.dead
     /\ owned' = IF handle # NULL THEN owned \cup {handle} ELSE owned
     /\ creates' = IF kind = "handle" THEN creates + 1 ELSE creates
     /\ ncalls' = ncalls + 1
     /\ last' = [op |-> op, kind |-> kind, args |-> args, returned |-> returned,
                 Event |-> handle,
                 Status |-> IF kind = "status" /\ returned THEN cx.Status ELSE EFI_SUCCESS,
                 Index |-> IF op = "EfiWaitForEvent" /\ returned THEN cx.Index ELSE 0,
                 calls |-> cx.calls, trips |-> cx.trips, willing |-> willing,
                 stale |-> stale]
     /\ UNCHANGED <<assertBuild, atRuntime>>

CreateArgs(Type, NotifyTpl, NotifyFunction, NotifyContext, EventGroup) ==
  [Type |-> Type, NotifyTpl |-> NotifyTpl, NotifyFunction |-> NotifyFunction,
   NotifyContext |-> NotifyContext, EventGroup |-> EventGroup]

TimerArgs(NotifyFunction, NotifyContext, TriggerTime, SignalPeriodic, NotifyTpl) ==
  [NotifyFunction |-> NotifyFunction, NotifyContext |-> NotifyContext,
   TriggerTime |-> TriggerTime, SignalPeriodic |-> SignalPeriodic, NotifyTpl |-> NotifyTpl]

CallEfiCreateEvent(Type, NotifyTpl, NotifyFunction, NotifyContext) ==
  /\ ~halted /\ ncalls < MaxCalls
  /\ creates < MaxCreates
  /\ \E ans \in CreateAnswers(Type, NotifyFunction) :
       Return("EfiCreateEvent", "handle",
              CreateArgs(Type, NotifyTpl, NotifyFunction, NotifyContext, NoGroup),
              EfiCreateEvent(Enter, Type, NotifyTpl, NotifyFunction, NotifyContext, ans),
              TRUE, FALSE)
  /\ UNCHANGED released

CallEfiCreateEventEx(Type, NotifyTpl, NotifyFunction, NotifyContext, EventGroup) ==
  /\ ~halted /\ ncalls < MaxCalls
  /\ creates < MaxCreates
  /\ \E ans \in CreateAnswers(Type, NotifyFunction) :
       Return("EfiCreateEventEx", "handle",
              CreateArgs(Type, NotifyTpl, NotifyFunction, NotifyContext, EventGroup),
              EfiCreateEventEx(Enter, Type, NotifyTpl, NotifyFunction, NotifyContext,
                               EventGroup, ans),
              TRUE, FALSE)
  /\ UNCHANGED released

CallEfiSetTimer(Event, Type, TriggerTime) ==
  /\ ~halted /\ ncalls < MaxCalls
  /\ Event \in Held
  /\ \E st \in Statuses :
       Return("EfiSetTimer", "status",
              [Event |-> Event, Type |-> Type, TriggerTime |-> TriggerTime],
              EfiSetTimer(Enter, Event, Type, TriggerTime, [Quiet EXCEPT !.timer = st]),
              TRUE, Event \in released)
  /\ UNCHANGED released

CallEfiSignalEvent(Event) ==
  /\ ~halted /\ ncalls < MaxCalls
  /\ Event \in Held
  /\ \E st \in Statuses :
       Return("EfiSignalEvent", "status", [Event |-> Event],
              EfiSignalEvent(Enter, Event, [Quiet EXCEPT !.signal = st]),
              TRUE, Event \in released)
  /\ UNCHANGED released

\* Event is the array of handles; NumberOfEvents is its length.
CallEfiWaitForEvent(Event) ==
  /\ ~halted /\ ncalls < MaxCalls
  /\ \A i \in 1..Len(Event) : Event[i] \in Held
  /\ \E w \in WaitAnswers(events, Event) :
       Return("EfiWaitForEvent", "status", [Event |-> Event],
              EfiWaitForEvent(Enter, Len(Event), Event, [Quiet EXCEPT !.wait = w]),
              TRUE, \E i \in 1..Len(Event) : Event[i] \in released)
  /\ UNCHANGED released

CallEfiCloseEvent(Event) ==
  /\ ~halted /\ ncalls < MaxCalls
  /\ Event \in Held
  /\ \E st \in Statuses :
       Return("EfiCloseEvent", "status", [Event |-> Event],
              EfiCloseEvent(Enter, Event, [Quiet EXCEPT !.close = st]),
              TRUE, Event \in released)
  /\ released' = released \cup {Event}

CallEfiCheckEvent(Event) ==
  /\ ~halted /\ ncalls < MaxCalls
  /\ Event \in Held
  /\ \E st \in CheckAnswers(events, Event) :
       Return("EfiCheckEvent", "status", [Event |-> Event],
              EfiCheckEvent(Enter, Event, [Quiet EXCEPT !.check = st]),
              TRUE, Event \in released)
  /\ UNCHANGED released

CallCreateTimerEvent(NotifyFunction, NotifyContext, TriggerTime, SignalPeriodic, NotifyTpl) ==
  /\ ~halted /\ ncalls < MaxCalls
  /\ creates < MaxCreates
  /\ \E ans \in TimerAnswers(NotifyFunction) :
       Return("CreateTimerEvent", "handle",
              TimerArgs(NotifyFunction, NotifyContext, TriggerTime, SignalPeriodic, NotifyTpl),
              CreateTimerEvent(Enter, NotifyFunction, NotifyContext, TriggerTime,
                               SignalPeriodic, NotifyTpl, ans),
              Willing(ans), FALSE)
  /\ UNCHANGED released

CallCreateNotifyEvent(NotifyFunction, NotifyContext, TriggerTime, SignalPeriodic) ==
  /\ ~halted /\ ncalls < MaxCalls
  /\ creates < MaxCreates
  /\ \E ans \in TimerAnswers(NotifyFunction) :
       Return("CreateNotifyEvent", "handle",
              TimerArgs(NotifyFunction, NotifyContext, TriggerTime, SignalPeriodic, TPL_NOTIFY),
              CreateNotifyEvent(Enter, NotifyFunction, NotifyContext, TriggerTime,
                                SignalPeriodic, ans),
              Willing(ans), FALSE)
  /\ UNCHANGED released

CallCancelTimer(Event) ==
  /\ ~halted /\ ncalls < MaxCalls
  /\ Event \in Held
  /\ \E st \in Statuses :
       Return("CancelTimer", "status", [Event |-> Event],
              CancelTimer(Enter, Event, [Quiet EXCEPT !.timer = st]),
              TRUE, Event \in released)
  /\ UNCHANGED released

CallCancelEvent(Event) ==
  /\ ~halted /\ ncalls < MaxCalls
  /\ Event \in Held
  /\ \E timer \in Statuses, close \in Statuses :
       /\ EFI_ERROR(timer) => ~EFI_ERROR(close)
       /\ Return("CancelEvent", "void", [Event |-> Event],
              CancelEvent(Enter, Event, [Quiet EXCEPT !.timer = timer, !.close = close]),
              TRUE, Event \in released)
  /\ released' = released \cup {Event}

CallCreateSignalEvent(NotifyFunction, NotifyContext, EventGroup) ==
  /\ ~halted /\ ncalls < MaxCalls
  /\ creates < MaxCreates
  /\ \E ans \in CreateAnswers({EVT_NOTIFY_SIGNAL}, NotifyFunction) :
       Return("CreateSignalEvent", "handle",
              CreateArgs({EVT_NOTIFY_SIGNAL}, TPL_NOTIFY, NotifyFunction, NotifyContext, EventGroup),
              CreateSignalEvent(Enter, NotifyFunction, NotifyContext, EventGroup, ans),
              TRUE, FALSE)
  /\ UNCHANGED released

\* The arguments of a milestone constructor: the callback and its context.
SubscriberArgs(NotifyFunction, NotifyContext) ==
  [NotifyFunction |-> NotifyFunction, NotifyContext |-> NotifyContext]

CallCreateExitBootServicesEvent(NotifyFunction, NotifyContext) ==
  /\ ~halted /\ ncalls < MaxCalls
  /\ creates < MaxCreates
  /\ \E ans \in CreateAnswers({EVT_NOTIFY_SIGNAL}, NotifyFunction) :
       Return("CreateExitBootServicesEvent", "handle",
              SubscriberArgs(NotifyFunction, NotifyContext),
              CreateExitBootServicesEvent(Enter, NotifyFunction, NotifyContext, ans),
              TRUE, FALSE)
  /\ UNCHANGED released

CallCreateVirtualAddressChangeEvent(NotifyFunction, NotifyContext) ==
  /\ ~halted /\ ncalls < MaxCalls
  /\ creates < MaxCreates
  /\ \E ans \in CreateAnswers({EVT_NOTIFY_SIGNAL}, NotifyFunction) :
       Return("CreateVirtualAddressChangeEvent", "handle",
              SubscriberArgs(NotifyFunction, NotifyContext),
              CreateVirtualAddressChangeEvent(Enter, NotifyFunction, NotifyContext, ans),
              TRUE, FALSE)
  /\ UNCHANGED released

CallCreateMemoryMapChangeEvent(NotifyFunction, NotifyContext) ==
  /\ ~halted /\ ncalls < MaxCalls
  /\ creates < MaxCreates
  /\ \E ans \in CreateAnswers({EVT_NOTIFY_SIGNAL}, NotifyFunction) :
       Return("CreateMemoryMapChangeEvent", "handle",
              SubscriberArgs(NotifyFunction, NotifyContext),
              CreateMemoryMapChangeEvent(Enter, NotifyFunction, NotifyContext, ans),
              TRUE, FALSE)
  /\ UNCHANGED released

CallCreateReadyToBootEvent(NotifyFunction, NotifyContext) ==
  /\ ~halted /\ ncalls < MaxCalls
  /\ creates < MaxCreates
  /\ \E ans \in CreateAnswers({EVT_NOTIFY_SIGNAL}, NotifyFunction) :
       Return("CreateReadyToBootEvent", "handle",
              SubscriberArgs(NotifyFunction, NotifyContext),
              CreateReadyToBootEvent(Enter, NotifyFunction, NotifyContext, ans),
              TRUE, FALSE)
  /\ UNCHANGED released

CallCreateDxeDispatchGuidEvent(NotifyFunction, NotifyContext) ==
  /\ ~halted /\ ncalls < MaxCalls
  /\ creates < MaxCreates
  /\ \E ans \in CreateAnswers({EVT_NOTIFY_SIGNAL}, NotifyFunction) :
       Return("CreateDxeDispatchGuidEvent", "handle",
              SubscriberArgs(NotifyFunction, NotifyContext),
              CreateDxeDispatchGuidEvent(Enter, NotifyFunction, NotifyContext, ans),
              TRUE, FALSE)
  /\ UNCHANGED released

CallCreateEndOfDxeEvent(NotifyFunction, NotifyContext) ==
  /\ ~halted /\ ncalls < MaxCalls
  /\ creates < MaxCreates
  /\ \E ans \in CreateAnswers({EVT_NOTIFY_SIGNAL}, NotifyFunction) :
       Return("CreateEndOfDxeEvent", "handle",
              SubscriberArgs(NotifyFunction, NotifyContext),
              CreateEndOfDxeEvent(Enter, NotifyFunction, NotifyContext, ans),
              TRUE, FALSE)
  /\ UNCHANGED released

\* The record of a step that is no library call.
Idle(op) ==
  [op |-> op, kind |-> "void", args |-> [x |-> 0], returned |-> TRUE,
   Event |-> NULL, Status |-> EFI_SUCCESS, Index |-> 0, calls |-> <<>>,
   trips |-> <<>>, willing |-> TRUE, stale |-> FALSE]

\* The firmware leaves the boot-time window; EfiAtRuntime () answers TRUE from now on.
ExitBootServices ==
  /\ ~halted
  /\ ~atRuntime
  /\ atRuntime' = TRUE
  /\ last' = Idle("ExitBootServices")
  /\ UNCHANGED <<assertBuild, halted, events, owned, released, creates, ncalls>>

\* What one timer tick of the platform does to an object.  The intervals of
\* TriggerTimes are no longer than a tick, so an armed timer is due at every
\* tick: the platform signals the object, which for an EVT_NOTIFY_SIGNAL
\* object invokes its notification function; a TimerRelative timer is then
\* spent, a TimerPeriodic one stays armed.
TickEvent(e) ==
  IF ~e.open THEN e
  ELSE IF e.timer = TimerCancel THEN [e EXCEPT !.ticks = @ + 1]
  ELSE [e EXCEPT !.ticks = @ + 1,
                 !.notified = IF EVT_NOTIFY_SIGNAL \in e.Type THEN @ + 1 ELSE @,
                 !.signaled = IF EVT_NOTIFY_SIGNAL \in e.Type THEN @ ELSE TRUE,
                 !.timer = IF e.timer = TimerRelative THEN TimerCancel ELSE @]

\* The platform's timer tick, dispatched between two library calls.
Tick ==
  /\ ~halted
  /\ ~atRuntime
  /\ \E h \in 1..Len(events) : events[h].open /\ events[h].ticks < MaxTicks
  /\ events' = [h \in 1..Len(events) |-> TickEvent(events[h])]
  /\ UNCHANGED <<assertBuild, atRuntime, halted, owned, released, creates, ncalls, last>>

\* ------------------------------------------------------ specifications
Init ==
  /\ assertBuild \in Builds
  /\ atRuntime = FALSE
  /\ halted = FALSE
  /\ events = <<>>
  /\ owned = {}
  /\ released = {}
  /\ creates = 0
  /\ ncalls = 0
  /\ last = Idle("none")

\* The creation calls of the adapter and the milestone constructors.
NextCreate ==
  \/ \E Type \in Types, NotifyTpl \in Tpls, NotifyFunction \in Functions,
        NotifyContext \in Contexts :
       CallEfiCreateEvent(Type, NotifyTpl, NotifyFunction, NotifyContext)
  \/ \E Type \in Types, NotifyTpl \in Tpls, NotifyFunction \in Functions,
        NotifyContext \in Contexts, EventGroup \in Groups :
       CallEfiCreateEventEx(Type, NotifyTpl, NotifyFunction, NotifyContext, EventGroup)
  \/ \E NotifyFunction \in Functions, NotifyContext \in Contexts, EventGroup \in Groups :
       CallCreateSignalEvent(NotifyFunction, NotifyContext, EventGroup)
  \/ \E NotifyFunction \in Functions, NotifyContext \in Contexts :
       \/ CallCreateExitBootServicesEvent(NotifyFunction, NotifyContext)
       \/ CallCreateVirtualAddressChangeEvent(NotifyFunction, NotifyContext)
       \/ CallCreateMemoryMapChangeEvent(NotifyFunction, NotifyContext)
       \/ CallCreateReadyToBootEvent(NotifyFunction, NotifyContext)
       \/ CallCreateDxeDispatchGuidEvent(NotifyFunction, NotifyContext)
       \/ CallCreateEndOfDxeEvent(NotifyFunction, NotifyContext)
  \/ ExitBootServices

\* The timer calls: construction, arming, cancelling and closing.
NextTimer ==
  \/ \E NotifyFunction \in Functions, NotifyContext \in Contexts,
        TriggerTime \in TriggerTimes, SignalPeriodic \in BOOLEAN, NotifyTpl \in Tpls :
       CallCreateTimerEvent(NotifyFunction, NotifyContext, TriggerTime, SignalPeriodic, NotifyTpl)
  \/ \E NotifyFunction \in Functions, NotifyContext \in Contexts,
        TriggerTime \in TriggerTimes, SignalPeriodic \in BOOLEAN :
       CallCreateNotifyEvent(NotifyFunction, NotifyContext, TriggerTime, SignalPeriodic)
  \/ \E Event \in Held, Type \in TimerDelays, TriggerTime \in TriggerTimes :
       CallEfiSetTimer(Event, Type, TriggerTime)
  \/ \E Event \in Held :
       \/ CallCancelTimer(Event)
       \/ CallCancelEvent(Event)
       \/ CallEfiCloseEvent(Event)
  \/ ExitBootServices

\* Every call of the library, the constructors with one context, one trigger
\* time and the two priority levels on either side of TPL_CALLBACK.
Next ==
  \/ \E Type \in Types, NotifyTpl \in {TPL_APPLICATION, TPL_NOTIFY},
        NotifyFunction \in Functions :
       \/ CallEfiCreateEvent(Type, NotifyTpl, NotifyFunction, NULL)
       \/ CallEfiCreateEventEx(Type, NotifyTpl, NotifyFunction, NULL, NoGroup)
  \/ \E NotifyFunction \in Functions :
       \/ CallCreateSignalEvent(NotifyFunction, NULL, NoGroup)
       \/ CallCreateExitBootServicesEvent(NotifyFunction, NULL)
       \/ CallCreateVirtualAddressChangeEvent(NotifyFunction, NULL)
       \/ CallCreateMemoryMapChangeEvent(NotifyFunction, NULL)
       \/ CallCreateReadyToBootEvent(NotifyFunction, NULL)
       \/ CallCreateDxeDispatchGuidEvent(NotifyFunction, NULL)
       \/ CallCreateEndOfDxeEvent(NotifyFunction, NULL)
  \/ \E NotifyFunction \in Functions, SignalPeriodic \in BOOLEAN :
       \/ \E NotifyTpl \in {TPL_APPLICATION, TPL_NOTIFY} :
            CallCreateTimerEvent(NotifyFunction, NULL, 0, SignalPeriodic, NotifyTpl)
       \/ CallCreateNotifyEvent(NotifyFunction, NULL, 0, SignalPeriodic)
  \/ \E Event \in Held :
       \/ \E Type \in TimerDelays : CallEfiSetTimer(Event, Type, 0)
       \/ CallCancelTimer(Event)
       \/ CallCancelEvent(Event)
       \/ CallEfiCloseEvent(Event)
       \/ CallEfiSignalEvent(Event)
       \/ CallEfiCheckEvent(Event)
  \/ \E Event \in {<<>>} \cup {<<h>> : h \in Held} \cup {<<g, h>> : g \in Held, h \in Held} :
       CallEfiWaitForEvent(Event)
  \/ ExitBootServices

Spec == Init /\ [][Next]_vars

SpecCreate == Init /\ [][NextCreate]_vars

SpecTimer == Init /\ [][NextTimer]_vars

\* A timer's life: construction at TPL_APPLICATION with interval 0, the
\* platform's ticks, and the caller's cancel and close.
NextTick ==
  \/ \E NotifyFunction \in Functions, SignalPeriodic \in BOOLEAN :
       CallCreateTimerEvent(NotifyFunction, NULL, 0, SignalPeriodic, TPL_APPLICATION)
  \/ \E Event \in Held :
       \/ CallCancelTimer(Event)
       \/ CallCancelEvent(Event)
       \/ CallEfiCloseEvent(Event)
  \/ Tick

\* The platform's dispatcher is fair: a due tick is eventually delivered.
SpecTick == Init /\ [][NextTick]_vars /\ WF_vars(Tick)

\* The context of a library call made when no platform object exists yet.
AtBoot ==
  [ev |-> <<>>, calls |-> <<>>, trips |-> <<>>, dead |-> FALSE,
   Status |-> EFI_SUCCESS, Event |-> NULL, Index |-> 0]

\* The platform objects two successful gBS->CreateEvent requests leave, the
\* first then signaled by gBS->SignalEvent or not.
PoolOfTwo(Type1, Type2, Signal1) ==
  LET c1 == gBS_CreateEvent(AtBoot, Type1, TPL_CALLBACK, 1, NULL, Quiet)
      c2 == gBS_CreateEvent(c1, Type2, TPL_CALLBACK, 1, NULL, Quiet)
  IN IF Signal1 THEN gBS_SignalEvent(c2, 1, Quiet).ev ELSE c2.ev

\* A caller that holds two events and is about to signal, poll and wait.
InitWait ==
  /\ assertBuild \in Builds
  /\ atRuntime = FALSE
  /\ halted = FALSE
  /\ \E Type1 \in Types, Type2 \in Types, Signal1 \in BOOLEAN :
       events = PoolOfTwo(Type1, Type2, Signal1)
  /\ owned = {1, 2}
  /\ released = {}
  /\ creates = 2
  /\ ncalls = 0
  /\ last = Idle("none")

\* Signaling, polling and waiting on the events held.
NextWait ==
  \/ \E Event \in {<<>>} \cup {<<h>> : h \in Held} \cup {<<g, h>> : g \in Held, h \in Held} :
       CallEfiWaitForEvent(Event)
  \/ \E Event \in Held :
       \/ CallEfiSignalEvent(Event)
       \/ CallEfiCheckEvent(Event)
  \/ ExitBootServices

SpecWait == InitWait /\ [][NextWait]_vars

\* ----------------------------------------------------------------- claims
Range(s) == {s[i] : i \in 1..Len(s)}

CallsTo(svc) == SelectSeq(last.calls, LAMBDA c : c.svc = svc)

IsLibraryCall == last.op \notin {"none", "ExitBootServices"}

IsTimerConstructor == last.op \in {"CreateTimerEvent", "CreateNotifyEvent"}

\* The platform created the event and then refused to arm it.
ArmFailed ==
  /\ Len(last.calls) >= 2
  /\ last.calls[1].svc = "CreateEvent" /\ ~EFI_ERROR(last.calls[1].Status)
  /\ last.calls[2].svc = "SetTimer" /\ EFI_ERROR(last.calls[2].Status)

\* C1: when CreateTimerEvent is called below TPL_CALLBACK, the platform
\* creates the event and SetTimer then fails, the call returns NULL having
\* issued CloseEvent exactly once, on the object just created, whatever the
\* callback, context, interval and periodic flag.
C1_ArmFailureClosesOnce ==
  (/\ last.op = "CreateTimerEvent"
   /\ last.returned
   /\ last.args.NotifyTpl < TPL_CALLBACK
   /\ ArmFailed)
  => /\ last.Event = NULL
     /\ Len(CallsTo("CloseEvent")) = 1
     /\ Len(last.calls) = 3
     /\ last.calls[3].svc = "CloseEvent"
     /\ last.calls[3].Event = last.calls[1].Event
     /\ ~last.calls[3].reused

C1_Witness ==
  /\ last.op = "CreateTimerEvent"
  /\ last.returned
  /\ last.args.NotifyTpl < TPL_CALLBACK
  /\ ArmFailed
  /\ last.Event = NULL
  /\ Len(CallsTo("CloseEvent")) = 1

\* C2: CancelEvent issues CloseEvent only after its SetTimer (TimerCancel, 0)
\* on the same handle has succeeded, and then exactly once; when that
\* SetTimer fails no CloseEvent is issued and a handle that was open stays open.
C2_CloseOnlyAfterCancel ==
  last.op = "CancelEvent"
  => LET h == last.args.Event
         calls == last.calls
     IN /\ Len(calls) <= 2
        /\ Len(calls) >= 1
             => /\ calls[1].svc = "SetTimer"
                /\ calls[1].Event = h
                /\ calls[1].args = [TimerType |-> TimerCancel, TriggerTime |-> 0]
        /\ (Len(calls) >= 1 /\ EFI_ERROR(calls[1].Status))
             => /\ Len(calls) = 1
                /\ ~last.stale => events[h].open /\ ~events[h].closeIssued
        /\ (Len(calls) >= 1 /\ ~EFI_ERROR(calls[1].Status))
             => /\ Len(calls) = 2
                /\ calls[2].svc = "CloseEvent"
                /\ calls[2].Event = h
        /\ Len(calls) = 0 => ~last.returned

C2_Witness ==
  /\ last.op = "CancelEvent"
  /\ last.returned
  /\ ~last.stale
  /\ Len(last.calls) = 1
  /\ EFI_ERROR(last.calls[1].Status)
  /\ events[last.args.Event].open

\* C3: whenever EfiCreateEvent returns, it has asked the platform once and its
\* result is non-null exactly when the platform's status is EFI_SUCCESS: a
\* failure yields NULL whatever handle the platform left in Event, and a
\* success yields the handle the platform wrote.
C3_HandleIffSuccess ==
  (last.op = "EfiCreateEvent" /\ last.returned)
  => /\ Len(last.calls) = 1
     /\ last.calls[1].svc = "CreateEvent"
     /\ (last.Event # NULL) <=> ~EFI_ERROR(last.calls[1].Status)
     /\ ~EFI_ERROR(last.calls[1].Status) => last.Event = last.calls[1].Event

C3_Witness ==
  /\ last.op = "EfiCreateEvent"
  /\ last.returned
  /\ EFI_ERROR(last.calls[1].Status)
  /\ last.calls[1].Event # NULL
  /\ last.Event = NULL

\* C4: when the platform would create and arm the event, CreateNotifyEvent
\* returns a non-null handle of a live event, created at TPL_NOTIFY and armed
\* periodic if SignalPeriodic and relative otherwise, with the interval asked for.
C4_NotifyTimerUsable ==
  (last.op = "CreateNotifyEvent" /\ last.willing /\ last.returned)
  => /\ last.Event # NULL
     /\ events[last.Event].open
     /\ events[last.Event].timer = TimerDelayOf(last.args.SignalPeriodic)
     /\ events[last.Event].trigger = last.args.TriggerTime
     /\ last.calls[1].args.NotifyTpl = TPL_NOTIFY

\* C5: CreateTimerEvent called with NotifyTpl >= TPL_CALLBACK returns NULL,
\* whatever the other arguments and whatever the platform would answer (it is
\* not asked).
C5_ElevatedTplYieldsNull ==
  (/\ last.op = "CreateTimerEvent"
   /\ last.returned
   /\ last.args.NotifyTpl >= TPL_CALLBACK)
  => last.Event = NULL /\ last.calls = <<>>

C5_Witness ==
  /\ last.op = "CreateTimerEvent"
  /\ last.returned
  /\ last.args.NotifyTpl = TPL_CALLBACK
  /\ last.willing
  /\ last.Event = NULL

\* A platform call that arms, signals or closes an object on which a
\* CloseEvent was already issued.
UseAfterClose(c) == c.svc \in {"SetTimer", "SignalEvent", "CloseEvent"} /\ c.reused

\* C6 as claimed: whatever calls the callers make on the handles the library
\* produced, no platform SetTimer, SignalEvent or CloseEvent is issued on an
\* object on which a CloseEvent was already issued.
C6_NeverUsesClosedHandle ==
  \A i \in 1..Len(last.calls) : ~UseAfterClose(last.calls[i])

\* C6 as amended: a platform SetTimer, SignalEvent or CloseEvent on an object
\* on which a CloseEvent was already issued is issued only by a call to which
\* the caller passed a handle it had already passed to EfiCloseEvent or
\* CancelEvent; the library's own cleanup steps never cause one.
C6_UseAfterCloseOnlyOnStaleHandle ==
  \A i \in 1..Len(last.calls) : UseAfterClose(last.calls[i]) => last.stale

C6_Witness ==
  /\ last.op = "CancelEvent"
  /\ ~last.stale
  /\ Len(last.calls) = 2
  /\ last.calls[2].svc = "CloseEvent"
  /\ ~last.calls[2].reused
  /\ ~events[last.args.Event].open

\* C7: whenever CreateTimerEvent returns a non-null handle, it issued exactly
\* two platform calls: one successful CreateEvent of type EVT_TIMER (no
\* callback) or EVT_TIMER | EVT_NOTIFY_SIGNAL (callback), which produced the
\* handle, then one successful SetTimer on it, periodic iff SignalPeriodic
\* and relative otherwise, with the caller's interval; no CloseEvent was
\* issued on it.
C7_NoHalfInitialisedTimer ==
  (IsTimerConstructor /\ last.returned /\ last.Event # NULL)
  => /\ Len(last.calls) = 2
     /\ last.calls[1].svc = "CreateEvent"
     /\ ~EFI_ERROR(last.calls[1].Status)
     /\ last.calls[1].Event = last.Event
     /\ last.calls[1].args.Type =
          (IF last.args.NotifyFunction = NULL
             THEN {EVT_TIMER} ELSE {EVT_TIMER, EVT_NOTIFY_SIGNAL})
     /\ last.calls[1].args.NotifyFunction = last.args.NotifyFunction
     /\ last.calls[2].svc = "SetTimer"
     /\ ~EFI_ERROR(last.calls[2].Status)
     /\ last.calls[2].Event = last.Event
     /\ last.calls[2].args =
          [TimerType |-> IF last.args.SignalPeriodic THEN TimerPeriodic ELSE TimerRelative,
           TriggerTime |-> last.args.TriggerTime]
     /\ events[last.Event].open
     /\ ~events[last.Event].closeIssued

C7_Witness ==
  /\ last.op = "CreateTimerEvent"
  /\ last.returned
  /\ last.Event # NULL
  /\ last.args.NotifyFunction # NULL
  /\ last.args.SignalPeriodic
  /\ events[last.Event].timer = TimerPeriodic

\* The line of the runtime assertion of the adapter that issues each platform
\* service.
RuntimeAssertOf(svc) ==
  CASE svc = "CreateEvent" -> 51
    [] svc = "CreateEventEx" -> 98
    [] svc = "SetTimer" -> 139
    [] svc = "SignalEvent" -> 163
    [] svc = "WaitForEvent" -> 197
    [] svc = "CloseEvent" -> 221
    [] svc = "CheckEvent" -> 247

\* The platform service each adapter operation wraps.
AdapterService(op) ==
  CASE op = "EfiCreateEvent" -> "CreateEvent"
    [] op = "EfiCreateEventEx" -> "CreateEventEx"
    [] op = "EfiSetTimer" -> "SetTimer"
    [] op = "EfiSignalEvent" -> "SignalEvent"
    [] op = "EfiWaitForEvent" -> "WaitForEvent"
    [] op = "EfiCloseEvent" -> "CloseEvent"
    [] op = "EfiCheckEvent" -> "CheckEvent"

Adapters ==
  {"EfiCreateEvent", "EfiCreateEventEx", "EfiSetTimer", "EfiSignalEvent",
   "EfiWaitForEvent", "EfiCloseEvent", "EfiCheckEvent"}

\* C8 as claimed: once EfiAtRuntime() reports TRUE, no library call issues a
\* platform call.
C8_NoPlatformCallAtRuntime ==
  (atRuntime /\ IsLibraryCall) => last.calls = <<>>

\* C8 as amended: once EfiAtRuntime() reports TRUE, in a build with
\* assertions enabled every platform call a library call issues comes after
\* the tripped runtime assertion of the adapter issuing it, and every adapter
\* operation trips an assertion; where a tripped assertion halts, no platform
\* call is issued and the operation does not return.  (In a build without
\* assertions nothing is tripped.)
C8_RuntimeAssertionPrecedesPlatformCall ==
  (atRuntime /\ IsLibraryCall)
  => /\ assertBuild # "off"
          => \A i \in 1..Len(last.calls) :
                RuntimeAssertOf(last.calls[i].svc) \in Range(last.calls[i].trips)
     /\ (assertBuild = "log" /\ last.op \in Adapters)
          => RuntimeAssertOf(AdapterService(last.op)) \in Range(last.trips)
     /\ (assertBuild = "halt" /\ last.op \in Adapters)
          => last.trips # <<>> /\ ~last.returned
     /\ assertBuild = "halt" => last.calls = <<>>
     /\ assertBuild = "off" => last.trips = <<>>

C8_Witness ==
  /\ atRuntime
  /\ assertBuild = "log"
  /\ last.op = "CancelEvent"
  /\ Len(last.calls) = 2
  /\ 139 \in Range(last.calls[1].trips)
  /\ 221 \in Range(last.calls[2].trips)

\* What a tripped assertion of either create adapter checks.
AssertKind(line) ==
  CASE line \in {51, 98} -> "runtime"
    [] line \in {55, 102} -> "status"
    [] line \in {61, 108} -> "handle"
    [] OTHER -> "callback"

\* Two outcomes agree: same handle, same platform state, same platform
\* requests with the same answers, same kinds of assertion tripped in the same
\* order, and both return or neither does.
SameOutcome(a, b) ==
  /\ a.Event = b.Event
  /\ a.dead = b.dead
  /\ a.ev = b.ev
  /\ Len(a.calls) = Len(b.calls)
  /\ \A i \in 1..Len(a.calls) :
       /\ a.calls[i].args = b.calls[i].args
       /\ a.calls[i].Event = b.calls[i].Event
       /\ a.calls[i].Status = b.calls[i].Status
  /\ Len(a.trips) = Len(b.trips)
  /\ \A i \in 1..Len(a.trips) : AssertKind(a.trips[i]) = AssertKind(b.trips[i])

\* What the caller and the platform can observe of a finished call.
Observed(cx) == [cx EXCEPT !.Event = IF cx.dead THEN NULL ELSE cx.Event]

\* C9: every call of EfiCreateEventEx with a NULL group, for every type,
\* priority, callback and context, has the outcome EfiCreateEvent has on the
\* same arguments in the same state under the same answer of the platform:
\* same assertions tripped, same handle, same platform state.
C9_NullGroupEquivalence ==
  [][(/\ ncalls' # ncalls
      /\ last'.op = "EfiCreateEventEx"
      /\ last'.args.EventGroup = NoGroup)
     => \E ans \in CreateAnswers(last'.args.Type, last'.args.NotifyFunction) :
          SameOutcome(
            Observed(EfiCreateEvent(Enter, last'.args.Type, last'.args.NotifyTpl,
                                    last'.args.NotifyFunction, last'.args.NotifyContext,
                                    ans)),
            [Event |-> last'.Event, dead |-> halted', ev |-> events',
             calls |-> last'.calls, trips |-> last'.trips])]_vars

\* The group each milestone constructor is documented to subscribe to.
MilestoneGroup(op) ==
  CASE op = "CreateExitBootServicesEvent" -> gEfiEventExitBootServicesGuid
    [] op = "CreateVirtualAddressChangeEvent" -> gEfiEventVirtualAddressChangeGuid
    [] op = "CreateMemoryMapChangeEvent" -> gEfiEventMemoryMapChangeGuid
    [] op = "CreateReadyToBootEvent" -> gEfiEventReadyToBootGuid
    [] op = "CreateDxeDispatchGuidEvent" -> gEfiEventDxeDispatchGuid
    [] op = "CreateEndOfDxeEvent" -> gEfiEndOfDxeEventGroupGuid

Milestones ==
  {"CreateExitBootServicesEvent", "CreateVirtualAddressChangeEvent",
   "CreateMemoryMapChangeEvent", "CreateReadyToBootEvent",
   "CreateDxeDispatchGuidEvent", "CreateEndOfDxeEvent"}

\* C10: each of the six milestone constructors issues no platform call other
\* than one CreateEventEx, and exactly that one whenever it returns; the
\* request carries the constructor's own group (the six are pairwise
\* distinct), type EVT_NOTIFY_SIGNAL, TPL_NOTIFY, and the caller's
\* NotifyFunction and NotifyContext unchanged.
C10_MilestoneBinding ==
  last.op \in Milestones
  => /\ Len(last.calls) <= 1
     /\ last.returned => Len(last.calls) = 1
     /\ \A i \in 1..Len(last.calls) :
          /\ last.calls[i].svc = "CreateEventEx"
          /\ last.calls[i].args =
               CreateArgs({EVT_NOTIFY_SIGNAL}, TPL_NOTIFY, last.args.NotifyFunction,
                          last.args.NotifyContext, MilestoneGroup(last.op))
     /\ Cardinality({MilestoneGroup(op) : op \in Milestones}) = 6

C10_Witness ==
  /\ last.op = "CreateEndOfDxeEvent"
  /\ last.returned
  /\ last.Event # NULL
  /\ last.args.NotifyContext # NULL
  /\ last.calls[1].args.EventGroup = gEfiEndOfDxeEventGroupGuid

\* The line of the ASSERT_EFI_ERROR of the adapter that issues each platform
\* service.
ErrorAssertOf(svc) ==
  CASE svc = "CreateEvent" -> 55
    [] svc = "CreateEventEx" -> 102
    [] svc = "SetTimer" -> 143
    [] svc = "SignalEvent" -> 167
    [] svc = "WaitForEvent" -> 201
    [] svc = "CloseEvent" -> 225
    [] svc = "CheckEvent" -> 252

\* The one failure-shaped status that is not escalated.
ExpectedTraffic(c) == c.svc = "CheckEvent" /\ c.Status = EFI_NOT_READY

\* C11: EfiCheckEvent on a live waitable object returns EFI_NOT_READY without
\* tripping ASSERT_EFI_ERROR when the object is unsignaled and EFI_SUCCESS
\* when it is signaled; in every library call, EFI_NOT_READY from CheckEvent
\* never trips the error assertion of its adapter, and where assertions are
\* compiled in every other non-success status of a platform call, from
\* CheckEvent or from any of the other six services, does.
C11_NotReadyIsNotAnError ==
  [][ncalls' # ncalls
     => /\ (/\ last'.op = "EfiCheckEvent"
            /\ last'.returned
            /\ events[last'.args.Event].open
            /\ EVT_NOTIFY_SIGNAL \notin events[last'.args.Event].Type)
           => /\ last'.Status = (IF events[last'.args.Event].signaled
                                   THEN EFI_SUCCESS ELSE EFI_NOT_READY)
              /\ 252 \notin Range(last'.trips)
        /\ \A i \in 1..Len(last'.calls) :
             LET c == last'.calls[i]
                 tripped == ErrorAssertOf(c.svc) \in Range(last'.trips)
             IN /\ ExpectedTraffic(c) => ~tripped
                /\ ~EFI_ERROR(c.Status) => ~tripped
                /\ (EFI_ERROR(c.Status) /\ ~ExpectedTraffic(c) /\ assertBuild # "off")
                     => tripped]_vars

C11_Witness ==
  /\ last.op = "EfiCheckEvent"
  /\ assertBuild = "halt"
  /\ last.returned
  /\ last.Status = EFI_NOT_READY
  /\ last.trips = <<>>
  /\ events[last.args.Event].open
  /\ ~events[last.args.Event].signaled

\* The last library call was CreateTimerEvent for a periodic timer with
\* interval 0 and a callback, it returned a handle, and the caller has made
\* no call since.
PeriodicWithCallback ==
  /\ last.op = "CreateTimerEvent"
  /\ last.args.NotifyFunction # NULL
  /\ last.args.SignalPeriodic
  /\ last.args.TriggerTime = 0
  /\ last.Event # NULL

\* C12: a periodic timer created by CreateTimerEvent with interval 0 and a
\* callback has had its callback invoked at least once for every timer tick
\* since; given a fair dispatcher it reaches three invocations unless the
\* caller acts first; and no object goes from live to closed except in a
\* call of EfiCloseEvent or CancelEvent that the caller makes on its handle.
C12_PeriodicTimerKeepsFiring ==
  /\ [](PeriodicWithCallback
          => /\ events[last.Event].open
             /\ events[last.Event].timer = TimerPeriodic
             /\ events[last.Event].notified >= events[last.Event].ticks)
  /\ [][\A h \in 1..Len(events) :
          (events[h].open /\ ~events'[h].open)
            => /\ ncalls' # ncalls
               /\ last'.op \in {"EfiCloseEvent", "CancelEvent"}
               /\ last'.args.Event = h]_vars
  /\ PeriodicWithCallback
       ~> (~PeriodicWithCallback \/ events[last.Event].notified >= 3)

C12_Witness ==
  /\ PeriodicWithCallback
  /\ events[last.Event].open
  /\ events[last.Event].ticks = 3
  /\ events[last.Event].notified = 3

\* The array passed to the last EfiWaitForEvent holds a handle of the
\* signal-on-notify kind, and the platform did not refuse the caller's
\* priority level.
WaitedOnNotifySignal ==
  /\ last.op = "EfiWaitForEvent"
  /\ last.returned
  /\ Len(last.calls) = 1
  /\ last.calls[1].Status # EFI_UNSUPPORTED
  /\ \E i \in 1..Len(last.args.Event) :
       EVT_NOTIFY_SIGNAL \in events[last.args.Event[i]].Type

\* C13 as claimed: EfiWaitForEvent over an array holding any handle of type
\* EVT_NOTIFY_SIGNAL returns EFI_INVALID_PARAMETER, whatever the signaled
\* state of the other handles.
C13_NotifySignalAlwaysRefused ==
  WaitedOnNotifySignal => last.Status = EFI_INVALID_PARAMETER

\* C13 as amended: EfiWaitForEvent returns the platform's answer in the one
\* call it makes: EFI_INVALID_PARAMETER, with its index, when the first handle
\* in array order that is signaled or of type EVT_NOTIFY_SIGNAL is of type
\* EVT_NOTIFY_SIGNAL, leaving every object as it was; and EFI_SUCCESS for a
\* signaled waitable handle that comes earlier in the array, although a
\* later handle is of type EVT_NOTIFY_SIGNAL.
C13_FirstReadyHandleDecides ==
  [][(/\ ncalls' # ncalls
      /\ last'.op = "EfiWaitForEvent"
      /\ last'.returned
      /\ Len(last'.calls) = 1
      /\ last'.calls[1].Status # EFI_UNSUPPORTED
      /\ FirstReady(events, last'.args.Event, 1) # 0)
     => LET i == FirstReady(events, last'.args.Event, 1)
            e == events[last'.args.Event[i]]
        IN /\ last'.Status = last'.calls[1].Status
           /\ last'.Index = i
           /\ (e.open /\ EVT_NOTIFY_SIGNAL \in e.Type)
                => /\ last'.Status = EFI_INVALID_PARAMETER
                   /\ events' = events
                   /\ assertBuild = "log" => 201 \in Range(last'.trips)
           /\ (e.open /\ EVT_NOTIFY_SIGNAL \notin e.Type)
                => /\ last'.Status = EFI_SUCCESS
                   /\ ~events'[last'.args.Event[i]].signaled]_vars

C13_Witness ==
  /\ WaitedOnNotifySignal
  /\ Len(last.args.Event) = 2
  /\ EVT_NOTIFY_SIGNAL \notin events[last.args.Event[1]].Type
  /\ EVT_NOTIFY_SIGNAL \in events[last.args.Event[2]].Type
  /\ last.Status = EFI_INVALID_PARAMETER
  /\ last.Index = 2

\* The statuses of the error taxonomy.
AllStatuses ==
  {EFI_SUCCESS, EFI_INVALID_PARAMETER, EFI_OUT_OF_RESOURCES, EFI_NOT_READY, EFI_UNSUPPORTED}

StatusAdapters ==
  {"EfiSetTimer", "EfiSignalEvent", "EfiWaitForEvent", "EfiCloseEvent", "EfiCheckEvent"}

\* The platform call c carries the arguments of the last adapter call.
Forwarded(c) ==
  /\ c.svc = AdapterService(last.op)
  /\ last.op = "EfiSetTimer"
       => /\ c.Event = last.args.Event
          /\ c.args = [TimerType |-> last.args.Type, TriggerTime |-> last.args.TriggerTime]
  /\ last.op \in {"EfiSignalEvent", "EfiCloseEvent", "EfiCheckEvent"}
       => c.Event = last.args.Event
  /\ last.op = "EfiWaitForEvent"
       => c.args = [NumberOfEvents |-> Len(last.args.Event), Event |-> last.args.Event]

\* An adapter outcome that returned made one platform call and hands back
\* its status st.
Verbatim(o, st) ==
  ~o.dead => Len(o.calls) = 1 /\ o.calls[1].Status = st /\ o.Status = st

\* C14: each of EfiSetTimer, EfiSignalEvent, EfiWaitForEvent, EfiCloseEvent
\* and EfiCheckEvent issues no platform call but one call of its own service
\* with the caller's arguments, and whenever it returns it has issued exactly
\* that one call and returns the status the call produced; this holds of the
\* calls made and, in every state an adapter call leaves, of each adapter
\* applied to every handle held under every status of the taxonomy.
C14_StatusVerbatim ==
  /\ last.op \in StatusAdapters
       => /\ Len(last.calls) <= 1
          /\ \A i \in 1..Len(last.calls) : Forwarded(last.calls[i])
          /\ last.returned => Len(last.calls) = 1 /\ last.Status = last.calls[1].Status
  /\ \A st \in (IF last.op \in StatusAdapters THEN AllStatuses ELSE {}), h \in Held :
       /\ \A Type \in TimerDelays, TriggerTime \in TriggerTimes :
            Verbatim(EfiSetTimer(Enter, h, Type, TriggerTime, [Quiet EXCEPT !.timer = st]), st)
       /\ Verbatim(EfiSignalEvent(Enter, h, [Quiet EXCEPT !.signal = st]), st)
       /\ Verbatim(EfiCloseEvent(Enter, h, [Quiet EXCEPT !.close = st]), st)
       /\ Verbatim(EfiCheckEvent(Enter, h, [Quiet EXCEPT !.check = st]), st)
       /\ Verbatim(EfiWaitForEvent(Enter, 1, <<h>>,
                                   [Quiet EXCEPT !.wait = [Status |-> st, Index |-> 1]]), st)

C14_Witness ==
  /\ last.op = "EfiSetTimer"
  /\ last.returned
  /\ Len(last.calls) = 1
  /\ last.Status = EFI_INVALID_PARAMETER
  /\ last.calls[1].Event = last.args.Event
  /\ Held # {}

\* C15: CancelTimer issues no platform call but one SetTimer (TimerCancel, 0)
\* on the given handle, exactly that one whenever it returns, and returns its
\* status; it issues no CloseEvent and leaves the object as live or closed as
\* it was, whether the cancel succeeds or fails; and an EfiSetTimer on the
\* handle right after a CancelTimer arms the live object again when the
\* platform accepts it.
C15_CancelTimerKeepsHandle ==
  [][/\ (ncalls' # ncalls /\ last'.op = "CancelTimer")
          => /\ Len(last'.calls) <= 1
             /\ \A i \in 1..Len(last'.calls) :
                  /\ last'.calls[i].svc = "SetTimer"
                  /\ last'.calls[i].Event = last'.args.Event
                  /\ last'.calls[i].args = [TimerType |-> TimerCancel, TriggerTime |-> 0]
             /\ last'.returned
                  => Len(last'.calls) = 1 /\ last'.Status = last'.calls[1].Status
             /\ events'[last'.args.Event].open = events[last'.args.Event].open
             /\ events'[last'.args.Event].closeIssued = events[last'.args.Event].closeIssued
     /\ (/\ ncalls' # ncalls
         /\ last.op = "CancelTimer"
         /\ last'.op = "EfiSetTimer"
         /\ last'.args.Event = last.args.Event
         /\ events[last.args.Event].open
         /\ Len(last'.calls) = 1
         /\ ~EFI_ERROR(last'.calls[1].Status))
          => /\ events'[last.args.Event].open
             /\ events'[last.args.Event].timer = last'.args.Type
             /\ events'[last.args.Event].trigger =
                  (IF last'.args.Type = TimerCancel THEN 0 ELSE last'.args.TriggerTime)]_vars

C15_Witness ==
  /\ last.op = "CancelTimer"
  /\ last.returned
  /\ ~last.stale
  /\ last.Status = EFI_SUCCESS
  /\ events[last.args.Event].open
  /\ ~events[last.args.Event].closeIssued
  /\ events[last.args.Event].timer = TimerCancel

\* C16: in CreateTimerEvent (and CreateNotifyEvent, which calls it), a
\* priority at or above TPL_CALLBACK means no platform call at all; the first
\* platform call is the CreateEvent and, when it fails, the only one; SetTimer
\* is issued only as the second call, after a successful create, on the handle
\* created; CloseEvent only as the third, after that SetTimer failed, on the
\* same handle; so SetTimer and CloseEvent are never issued on NULL.
C16_CallsInOrder ==
  IsTimerConstructor
  => /\ last.args.NotifyTpl >= TPL_CALLBACK => last.calls = <<>>
     /\ Len(last.calls) <= 3
     /\ Len(last.calls) >= 1 => last.calls[1].svc = "CreateEvent"
     /\ (Len(last.calls) >= 1 /\ EFI_ERROR(last.calls[1].Status)) => Len(last.calls) = 1
     /\ \A i \in 1..Len(last.calls) :
          LET c == last.calls[i]
          IN /\ c.svc = "CreateEvent" => i = 1
             /\ c.svc = "SetTimer"
                  => /\ i = 2
                     /\ ~EFI_ERROR(last.calls[1].Status)
                     /\ c.Event = last.calls[1].Event
                     /\ c.Event # NULL
             /\ c.svc = "CloseEvent"
                  => /\ i = 3
                     /\ last.calls[2].svc = "SetTimer"
                     /\ EFI_ERROR(last.calls[2].Status)
                     /\ c.Event = last.calls[1].Event
                     /\ c.Event # NULL
             /\ c.svc \in {"CreateEvent", "SetTimer", "CloseEvent"}

C16_Witness ==
  /\ last.op = "CreateTimerEvent"
  /\ last.args.NotifyTpl < TPL_CALLBACK
  /\ Len(last.calls) = 1
  /\ EFI_ERROR(last.calls[1].Status)
  /\ last.calls[1].Event # NULL
  /\ last.returned

\* The platform objects that are live: created and not closed.
LiveObjects == {h \in 1..Len(events) : events[h].open}

\* The objects the platform created during the last library call.
CreatedByLast ==
  {last.calls[i].Event : i \in {j \in 1..Len(last.calls) :
                                  /\ last.calls[j].svc \in {"CreateEvent", "CreateEventEx"}
                                  /\ ~EFI_ERROR(last.calls[j].Status)}}

\* The last call was a timer constructor that returned NULL to its caller.
TimerConstructorGaveNull == IsTimerConstructor /\ last.returned /\ last.Event = NULL

HandleReturning ==
  {"EfiCreateEvent", "EfiCreateEventEx", "CreateTimerEvent", "CreateNotifyEvent",
   "CreateSignalEvent"} \cup Milestones

\* The assertions a handle-returning operation can trip on its way to NULL:
\* the status and handle assertions of the create adapters, those of
\* EfiSetTimer and EfiCloseEvent, and the final one of CreateTimerEvent.
NullHandleAsserts == {55, 61, 102, 108, 143, 225, 293}

\* C18: where assertions are compiled in, a handle-returning operation that
\* returns NULL has tripped an assertion first, one of those on the failed
\* status or on the NULL handle.
C18_NullOnlyAfterAssertion ==
  (/\ assertBuild # "off"
   /\ last.op \in HandleReturning
   /\ last.returned
   /\ last.Event = NULL)
  => /\ last.kind = "handle"
     /\ last.trips # <<>>
     /\ Range(last.trips) \cap NullHandleAsserts # {}

C18_Witness ==
  /\ assertBuild = "log"
  /\ last.op = "CreateTimerEvent"
  /\ last.returned
  /\ last.Event = NULL
  /\ last.args.NotifyTpl >= TPL_CALLBACK
  /\ last.calls = <<>>
  /\ last.trips = <<293>>

====
